---- MODULE Spec2Model ----
(***************************************************************************)
(* Model of applog-pattern-exploration/compare_stacktraces.py: reduction   *)
(* of a raw Java stacktrace to a run-length encoded chain of class         *)
(* prefixes, the LCS similarity of two chains, the sequential corpus       *)
(* deduplication and the pairwise scan of the command line entry point.    *)
(*                                                                         *)
(* A Python str is a sequence of one-character strings.  A float           *)
(* similarity lcs_len / max_len * 100.0 is the exact rational              *)
(* [num |-> 100 * lcs_len, den |-> max_len]; thresholds are integer        *)
(* valued floats.                                                          *)
(***************************************************************************)
EXTENDS Integers, Sequences, FiniteSets, TLC

(***************************************************************************)
(* Bounds of the model.                                                    *)
(***************************************************************************)
\* most lines of a trace drawn for build_node_chain
MaxLines == 4
\* longest chain drawn for compute_similarity
MaxChain == 3
\* longest list all_stacktraces
MaxStream == 3

(***************************************************************************)
(* str helpers (Python built-ins used by the source).                      *)
(***************************************************************************)
NL == "\n"
Whitespace == {" ", "\t", NL}

Max(a, b) == IF a >= b THEN a ELSE b

RECURSIVE Reverse(_)
\* seq[::-1]
Reverse(s) == IF s = <<>> THEN <<>> ELSE Append(Reverse(Tail(s)), Head(s))

\* x in s, for a one-character x
Contains(s, c) == \E i \in 1..Len(s) : s[i] = c

\* s.find(c) as a 1-based index, 0 when absent
Find(s, c) == IF Contains(s, c)
              THEN CHOOSE i \in 1..Len(s) : s[i] = c /\ \A k \in 1..(i - 1) : s[k] # c
              ELSE 0

\* s.rfind(c) as a 1-based index, 0 when absent
RFind(s, c) == IF Contains(s, c)
               THEN CHOOSE i \in 1..Len(s) : s[i] = c /\ \A k \in (i + 1)..Len(s) : s[k] # c
               ELSE 0

\* s.split(c)[0]
SplitFirst(s, c) == IF Contains(s, c) THEN SubSeq(s, 1, Find(s, c) - 1) ELSE s

RECURSIVE LStrip(_)
LStrip(s) == IF s # <<>> /\ Head(s) \in Whitespace THEN LStrip(Tail(s)) ELSE s

\* s.strip()
Strip(s) == Reverse(LStrip(Reverse(LStrip(s))))

\* s.startswith(p)
StartsWith(s, p) == Len(s) >= Len(p) /\ SubSeq(s, 1, Len(p)) = p

RECURSIVE SplitLinesFrom(_, _, _, _)
SplitLinesFrom(s, i, cur, acc) ==
    IF i > Len(s)
    THEN IF cur = <<>> THEN acc ELSE Append(acc, cur)
    ELSE IF s[i] = NL
         THEN SplitLinesFrom(s, i + 1, <<>>, Append(acc, cur))
         ELSE SplitLinesFrom(s, i + 1, Append(cur, s[i]), acc)

\* s.splitlines() for texts whose only line terminator is "\n"
splitlines(s) == SplitLinesFrom(s, 1, <<>>, <<>>)

RECURSIVE JoinLines(_)
\* "\n".join(lines)
JoinLines(lines) ==
    IF lines = <<>> THEN <<>>
    ELSE IF Len(lines) = 1 THEN lines[1]
    ELSE lines[1] \o <<NL>> \o JoinLines(Tail(lines))

(***************************************************************************)
(* 1. Extract frames from raw Java stacktrace.                             *)
(***************************************************************************)
AT == <<"a", "t", " ">>

RECURSIVE FramesOf(_)
FramesOf(lines) ==
    IF lines = <<>> THEN <<>>
    ELSE LET line == Strip(Head(lines))
         IN  IF StartsWith(line, AT)
             THEN <<line>> \o FramesOf(Tail(lines))
             ELSE FramesOf(Tail(lines))

extract_frames(stacktrace) == FramesOf(splitlines(stacktrace))

(***************************************************************************)
(* 2. Extract prefix (everything before "$"), fallback: class part before  *)
(*    the last ".".                                                        *)
(***************************************************************************)
extract_prefix(frame_line) ==
    LET line == SubSeq(frame_line, 4, Len(frame_line))
        class_and_method == SplitFirst(line, "(")
        idx == RFind(class_and_method, ".")
        full_class == SubSeq(class_and_method, 1, idx - 1)
    IN  IF ~Contains(class_and_method, ".") THEN class_and_method
        ELSE IF Contains(full_class, "$") THEN SplitFirst(full_class, "$")
        ELSE full_class

(***************************************************************************)
(* 3. Build the chain of nodes (prefix, count) by prefix grouping.         *)
(***************************************************************************)
\* last_prefix is None or a prefix: <<>> is None, <<p>> is the prefix p
None == <<>>

\* the state of the loop of build_node_chain after the frames fs[1..n]
RECURSIVE ChainLoop(_, _)
ChainLoop(fs, n) ==
    IF n = 0 THEN [nodes |-> <<>>, last_prefix |-> None, count |-> 0]
    ELSE LET st == ChainLoop(fs, n - 1)
             prefix == extract_prefix(fs[n])
         IN  IF <<prefix>> = st.last_prefix
             THEN [st EXCEPT !.count = @ + 1]
             ELSE [nodes |-> IF st.last_prefix # None
                             THEN Append(st.nodes, <<st.last_prefix[1], st.count>>)
                             ELSE st.nodes,
                   last_prefix |-> <<prefix>>,
                   count |-> 1]

\* build_node_chain without "Add last node"
build_node_chain_noflush(stacktrace) ==
    LET frames == Reverse(extract_frames(stacktrace))
    IN  ChainLoop(frames, Len(frames)).nodes

\* build_node_chain whose loop closes a node at every frame
RECURSIVE ChainLoopNoMerge(_, _)
ChainLoopNoMerge(fs, n) ==
    IF n = 0 THEN <<>>
    ELSE Append(ChainLoopNoMerge(fs, n - 1), <<extract_prefix(fs[n]), 1>>)
build_node_chain_nomerge(stacktrace) ==
    LET frames == Reverse(extract_frames(stacktrace))
    IN  ChainLoopNoMerge(frames, Len(frames))

build_node_chain(stacktrace) ==
    LET frames == Reverse(extract_frames(stacktrace))
        st == ChainLoop(frames, Len(frames))
    IN  IF st.last_prefix # None
        THEN Append(st.nodes, <<st.last_prefix[1], st.count>>)
        ELSE st.nodes

(***************************************************************************)
(* 4. Compute LCS for two sequences.                                       *)
(***************************************************************************)
\* lcs_length that on a mismatch looks at dp[i-1][j] only
lcs_length_onesided(seq1, seq2) ==
    LET m == Len(seq1)
        n == Len(seq2)
        dp[i \in 0..m, j \in 0..n] ==
            IF i = 0 \/ j = 0 THEN 0
            ELSE IF seq1[i] = seq2[j] THEN dp[i - 1, j - 1] + 1
            ELSE dp[i - 1, j]
    IN  dp[m, n]

\* lcs_length whose loops stop one short: range(1, m), range(1, n)
lcs_length_short(seq1, seq2) ==
    LET m == Len(seq1)
        n == Len(seq2)
        dp[i \in 0..m, j \in 0..n] ==
            IF i = 0 \/ j = 0 \/ i = m \/ j = n THEN 0
            ELSE IF seq1[i] = seq2[j] THEN dp[i - 1, j - 1] + 1
            ELSE Max(dp[i - 1, j], dp[i, j - 1])
    IN  dp[m, n]

\* lcs_length that starts again from 0 on a mismatch (common substring)
lcs_length_contiguous(seq1, seq2) ==
    LET m == Len(seq1)
        n == Len(seq2)
        dp[i \in 0..m, j \in 0..n] ==
            IF i = 0 \/ j = 0 THEN 0
            ELSE IF seq1[i] = seq2[j] THEN dp[i - 1, j - 1] + 1
            ELSE 0
    IN  dp[m, n]

lcs_length(seq1, seq2) ==
    LET m == Len(seq1)
        n == Len(seq2)
        dp[i \in 0..m, j \in 0..n] ==
            IF i = 0 \/ j = 0 THEN 0
            ELSE IF seq1[i] = seq2[j] THEN dp[i - 1, j - 1] + 1
            ELSE Max(dp[i - 1, j], dp[i, j - 1])
    IN  dp[m, n]

(***************************************************************************)
(* 5. Compute similarity between two node chains.                          *)
(***************************************************************************)
RECURSIVE GCD(_, _)
GCD(a, b) == IF b = 0 THEN a ELSE GCD(b, a % b)

\* the float n / d (d > 0) as a rational in lowest terms
Rat(n, d) == LET g == GCD(n, d) IN [num |-> n \div g, den |-> d \div g]

\* comparisons of a float similarity with a float
RatGE(x, y) == x.num * y.den >= y.num * x.den
RatLT(x, y) == ~RatGE(x, y)
RatMax(x, y) == IF RatGE(x, y) THEN x ELSE y
Float(n) == [num |-> n, den |-> 1]

\* [prefix for (prefix, count) in nodes]
PrefixesOf(nodes) == [x \in 1..Len(nodes) |-> nodes[x][1]]

\* the value standing for a raised ZeroDivisionError
ZeroDivisionError == [num |-> 0, den |-> 0]

\* (n / d) * 100.0
PercentOf(n, d) == IF d = 0 THEN ZeroDivisionError ELSE Rat(n * 100, d)

\* compute_similarity without the test for an empty sequence
compute_similarity_noguard(nodes_a_, nodes_b_) ==
    LET seq_a == PrefixesOf(nodes_a_)
        seq_b == PrefixesOf(nodes_b_)
    IN  PercentOf(lcs_length(seq_a, seq_b), Max(Len(seq_a), Len(seq_b)))

compute_similarity(nodes_a_, nodes_b_) ==
    LET seq_a == PrefixesOf(nodes_a_)
        seq_b == PrefixesOf(nodes_b_)
        lcs_len == lcs_length(seq_a, seq_b)
        max_len == Max(Len(seq_a), Len(seq_b))
    IN  IF seq_a = <<>> \/ seq_b = <<>> THEN Float(0)
        ELSE PercentOf(lcs_len, max_len)

(***************************************************************************)
(* 6. High-level convenience function.                                     *)
(***************************************************************************)
compare_stacktraces(trace1, trace2) ==
    LET nodes1 == build_node_chain(trace1)
        nodes2 == build_node_chain(trace2)
    IN  <<nodes1, nodes2, compute_similarity(nodes1, nodes2)>>

(***************************************************************************)
(* Input texts.  Lines of a stacktrace: frames with a "(file)" suffix, an  *)
(* inner class, surrounding whitespace, a package, no "." at all, and a    *)
(* line that is no frame although it contains "at ".                       *)
(***************************************************************************)
\* prefix A
F_A == <<"a", "t", " ", "A", ".", "m", "(", "F", ".", "j", ")">>
\* prefix A (inner class)
F_AI == <<"a", "t", " ", "A", "$", "I", ".", "n", "(", "F", ".", "j", ")">>
\* prefix B (indented, trailing blank)
F_B == <<"\t", "a", "t", " ", "B", ".", "m", "(", "F", ".", "j", ")", " ">>
\* prefix p.B (no "(")
F_pB == <<"a", "t", " ", "p", ".", "B", ".", "m">>
\* prefix main (no ".")
F_main == <<"a", "t", " ", "m", "a", "i", "n", "(", "F", ".", "j", ")">>
\* not a frame
N_msg == <<"E", ":", " ", "a", "t", " ", "x">>

LinePool == {F_A, F_AI, F_B, F_pB, F_main, N_msg}

\* all sequences over S of length at most n
SeqsUpTo(S, n) == UNION {[1..len -> S] : len \in 0..n}

\* the texts handed to build_node_chain
ChainTraces == {JoinLines(ls) : ls \in SeqsUpTo(LinePool, MaxLines)}

\* the segments and chains handed to compute_similarity
Segments == {<<<<"A">>, 1>>, <<<<"A">>, 2>>, <<<<"B">>, 1>>, <<<<"m", "a", "i", "n">>, 1>>}
Chains == SeqsUpTo(Segments, MaxChain)

\* the least number of lines of a stacktrace that is compared
MinLines == 8

\* a text of n message lines followed by the given lines
RECURSIVE Header(_)
Header(n) == IF n = 0 THEN <<>> ELSE Append(Header(n - 1), <<"E">>)
Text(n, ls) == JoinLines(Header(n) \o ls)

\* stacktraces of the directory: chains [B A], [B A] again from other frames,
\* [main A], [main B A], no frame at all, and two texts of fewer than 8 lines
T_AB == Text(6, <<F_A, F_B>>)
T_AB2 == Text(6, <<F_AI, F_A, F_B>>)
T_AM == Text(6, <<F_A, F_main>>)
T_ABM == Text(5, <<F_A, F_B, F_main>>)
T_none == Text(8, <<>>)
T_short == Text(5, <<F_A, F_B>>)
T_short2 == Text(1, <<F_main>>)
StreamTraces == {T_AB, T_AB2, T_AM, T_ABM, T_none, T_short, T_short2}

Filenames == {"1_2_stacktrace.txt", "1_10_stacktrace.txt"}
\* values of --threshold, two of them outside [0, 100]
Thresholds == {-10, 0, 50, 80, 100, 150}

(***************************************************************************)
(* 8. Stacktrace class for directory comparison.                           *)
(***************************************************************************)
StackTrace(stacktrace_, filename_) == [stacktrace |-> stacktrace_, filename |-> filename_]

VARIABLES
    pc,                     \* position of the run
    stacktrace,             \* argument of build_node_chain
    nodes,                  \* its result
    nodes_a,                \* arguments of compute_similarity
    nodes_b,
    similarity,             \* its result
    all_stacktraces,        \* the list of StackTrace of the directory modes
    threshold,              \* args.threshold
    corpus,                 \* sequential_compare: its locals
    distinct_count,
    similar_count,
    k,                      \* number of items the for loop has taken
    i,                      \* pairwise mode: the loop indices (0-based)
    j,
    all_results,
    comparison_count,
    above_threshold_count

chainVars == <<stacktrace, nodes>>
simVars == <<nodes_a, nodes_b, similarity>>
seqVars == <<corpus, distinct_count, similar_count, k>>
pairVars == <<i, j, all_results, comparison_count, above_threshold_count>>
vars == <<pc, chainVars, simVars, all_stacktraces, threshold, seqVars, pairVars>>

\* the variables a mode does not use
ChainIdle == stacktrace = <<>> /\ nodes = <<>>
SimIdle == nodes_a = <<>> /\ nodes_b = <<>> /\ similarity = Float(0)
DirIdle == all_stacktraces = <<>> /\ threshold = 0
SeqIdle == corpus = <<>> /\ distinct_count = 0 /\ similar_count = 0 /\ k = 0
PairIdle ==
    /\ i = 0 /\ j = 0 /\ all_results = <<>>
    /\ comparison_count = 0 /\ above_threshold_count = 0

(***************************************************************************)
(* build_node_chain applied to a text.                                     *)
(***************************************************************************)
ChainInit ==
    /\ pc = "chain"
    /\ stacktrace \in ChainTraces
    /\ nodes = <<>>
    /\ SimIdle /\ DirIdle /\ SeqIdle /\ PairIdle

BuildNodeChain ==
    /\ pc = "chain"
    /\ nodes' = build_node_chain(stacktrace)
    /\ pc' = "done"
    /\ UNCHANGED <<stacktrace, simVars, all_stacktraces, threshold, seqVars, pairVars>>

ChainNext == BuildNodeChain

SpecChain == ChainInit /\ [][ChainNext]_vars

(***************************************************************************)
(* compute_similarity applied to two chains.                               *)
(***************************************************************************)
SimInit ==
    /\ pc = "sim"
    /\ nodes_a \in Chains
    /\ nodes_b \in Chains
    /\ similarity = Float(0)
    /\ ChainIdle /\ DirIdle /\ SeqIdle /\ PairIdle

ComputeSimilarity ==
    /\ pc = "sim"
    /\ similarity' = compute_similarity(nodes_a, nodes_b)
    /\ pc' = "done"
    /\ UNCHANGED <<chainVars, nodes_a, nodes_b, all_stacktraces, threshold, seqVars, pairVars>>

SimNext == ComputeSimilarity

SpecSim == SimInit /\ [][SimNext]_vars

(***************************************************************************)
(* 9. Sequential comparison functions.                                     *)
(***************************************************************************)
\* max_similarity after the first n traces of the corpus
RECURSIVE MaxSimilarity(_, _, _)
MaxSimilarity(corpus_, current_stacktrace, n) ==
    IF n = 0 THEN Float(0)
    ELSE RatMax(MaxSimilarity(corpus_, current_stacktrace, n - 1),
                compare_stacktraces(current_stacktrace, corpus_[n])[3])

\* compare_stacktrace_with_corpus returning max_similarity > threshold
compare_stacktrace_with_corpus_gt(corpus_, current_stacktrace, threshold_) ==
    IF corpus_ = <<>> THEN FALSE
    ELSE ~RatGE(Float(threshold_), MaxSimilarity(corpus_, current_stacktrace, Len(corpus_)))

\* compare_stacktrace_with_corpus without "if not corpus: return False"
compare_stacktrace_with_corpus_noempty(corpus_, current_stacktrace, threshold_) ==
    RatGE(MaxSimilarity(corpus_, current_stacktrace, Len(corpus_)), Float(threshold_))

\* compare_stacktrace_with_corpus that looks at the last corpus trace only
compare_stacktrace_with_corpus_last(corpus_, current_stacktrace, threshold_) ==
    IF corpus_ = <<>> THEN FALSE
    ELSE RatGE(compare_stacktraces(current_stacktrace, corpus_[Len(corpus_)])[3],
               Float(threshold_))

compare_stacktrace_with_corpus(corpus_, current_stacktrace, threshold_) ==
    IF corpus_ = <<>> THEN FALSE
    ELSE RatGE(MaxSimilarity(corpus_, current_stacktrace, Len(corpus_)), Float(threshold_))

\* the line test one off: st_lines < 7
TooShortOff(st_obj) == Len(splitlines(st_obj.stacktrace)) + 1 < MinLines

\* st_lines < 8
TooShort(st_obj) == Len(splitlines(st_obj.stacktrace)) < MinLines

\* the file name as sort_key reads it: (int(parts[0]), int(parts[1]))
sort_key(st) ==
    CASE st.filename = "1_2_stacktrace.txt" -> <<1, 2>>
      [] st.filename = "1_10_stacktrace.txt" -> <<1, 10>>

KeyLE(a, b) == a[1] < b[1] \/ (a[1] = b[1] /\ a[2] <= b[2])

\* the list is in the order all_stacktraces.sort(key=sort_key) leaves
Sorted(list) ==
    \A x \in 1..(Len(list) - 1) : KeyLE(sort_key(list[x]), sort_key(list[x + 1]))

\* the lists handed to sequential_compare: stacktraces of one file, those
\* of fewer than 8 lines included
SeqItems == {StackTrace(t, "1_2_stacktrace.txt") : t \in StreamTraces}

SeqInit ==
    /\ pc = "seq"
    /\ all_stacktraces \in SeqsUpTo(SeqItems, MaxStream)
    /\ threshold \in Thresholds
    /\ corpus = <<>>
    /\ distinct_count = 0
    /\ similar_count = 0
    /\ k = 0
    /\ ChainIdle /\ SimIdle /\ PairIdle

\* an iteration of the loop that ends at "continue"
SeqSkip ==
    /\ pc = "seq"
    /\ k < Len(all_stacktraces)
    /\ TooShort(all_stacktraces[k + 1])
    /\ k' = k + 1
    /\ UNCHANGED <<pc, chainVars, simVars, all_stacktraces, threshold,
                   corpus, distinct_count, similar_count, pairVars>>

\* SeqAdmit with corpus.insert(0, ...) for corpus.append(...)
SeqAdmitFront ==
    /\ pc = "seq"
    /\ k < Len(all_stacktraces)
    /\ LET st_obj == all_stacktraces[k + 1]
       IN  /\ ~TooShort(st_obj)
           /\ ~compare_stacktrace_with_corpus(corpus, st_obj.stacktrace, threshold)
           /\ corpus' = <<st_obj.stacktrace>> \o corpus
    /\ distinct_count' = distinct_count + 1
    /\ k' = k + 1
    /\ UNCHANGED <<pc, chainVars, simVars, all_stacktraces, threshold,
                   similar_count, pairVars>>

\* an iteration that adds the stacktrace to the corpus
SeqAdmit ==
    /\ pc = "seq"
    /\ k < Len(all_stacktraces)
    /\ LET st_obj == all_stacktraces[k + 1]
       IN  /\ ~TooShort(st_obj)
           /\ ~compare_stacktrace_with_corpus(corpus, st_obj.stacktrace, threshold)
           /\ corpus' = Append(corpus, st_obj.stacktrace)
    /\ distinct_count' = distinct_count + 1
    /\ k' = k + 1
    /\ UNCHANGED <<pc, chainVars, simVars, all_stacktraces, threshold,
                   similar_count, pairVars>>

\* an iteration that counts the stacktrace as similar
SeqSimilar ==
    /\ pc = "seq"
    /\ k < Len(all_stacktraces)
    /\ LET st_obj == all_stacktraces[k + 1]
       IN  /\ ~TooShort(st_obj)
           /\ compare_stacktrace_with_corpus(corpus, st_obj.stacktrace, threshold)
    /\ similar_count' = similar_count + 1
    /\ k' = k + 1
    /\ UNCHANGED <<pc, chainVars, simVars, all_stacktraces, threshold,
                   corpus, distinct_count, pairVars>>

\* the loop is over: the counts are printed
SeqFinish ==
    /\ pc = "seq"
    /\ k = Len(all_stacktraces)
    /\ pc' = "done"
    /\ UNCHANGED <<chainVars, simVars, all_stacktraces, threshold, seqVars, pairVars>>

SeqNext == SeqSkip \/ SeqAdmit \/ SeqSimilar \/ SeqFinish

SpecSeq == SeqInit /\ [][SeqNext]_vars

(***************************************************************************)
(* Pairwise comparison mode of the entry point.                            *)
(***************************************************************************)
\* round(x, 2) of a float x >= 0
Round2(x) == Rat((2 * 100 * x.num + x.den) \div (2 * x.den), 100)

\* what the entry point loads: stripped, non-empty, at least 8 lines
LoadedItems ==
    {StackTrace(Strip(t), f) : t \in {u \in StreamTraces :
                                        /\ Strip(u) # <<>>
                                        /\ Len(splitlines(Strip(u))) >= MinLines},
                               f \in Filenames}

PairInit ==
    /\ pc = "pairwise"
    /\ all_stacktraces \in {l \in SeqsUpTo(LoadedItems, MaxStream) : Sorted(l)}
    /\ threshold \in Thresholds
    /\ i = 0
    /\ j = 1
    /\ all_results = <<>>
    /\ comparison_count = 0
    /\ above_threshold_count = 0
    /\ ChainIdle /\ SimIdle /\ SeqIdle

\* the loop indices after the pair (i, j)
NextI == IF j + 1 < Len(all_stacktraces) THEN i ELSE i + 1
NextJ == IF j + 1 < Len(all_stacktraces) THEN j + 1 ELSE i + 2

\* PairRecord that stores a result only when it is printed
PairRecordFiltered ==
    /\ pc = "pairwise"
    /\ j < Len(all_stacktraces)
    /\ LET st1 == all_stacktraces[i + 1]
           st2 == all_stacktraces[j + 1]
           sim == compare_stacktraces(st1.stacktrace, st2.stacktrace)[3]
           result == [comparison_id |-> comparison_count + 1,
                      file1 |-> st1.filename,
                      file2 |-> st2.filename,
                      similarity |-> Round2(sim)]
       IN  /\ st1.filename # st2.filename
           /\ comparison_count' = comparison_count + 1
           /\ IF RatGE(sim, Float(threshold))
              THEN /\ all_results' = Append(all_results, result)
                   /\ above_threshold_count' = above_threshold_count + 1
              ELSE UNCHANGED <<all_results, above_threshold_count>>
    /\ i' = NextI
    /\ j' = NextJ
    /\ UNCHANGED <<pc, chainVars, simVars, all_stacktraces, threshold, seqVars>>

\* PairRecord that counts only similarity > args.threshold
PairRecordStrict ==
    /\ pc = "pairwise"
    /\ j < Len(all_stacktraces)
    /\ LET st1 == all_stacktraces[i + 1]
           st2 == all_stacktraces[j + 1]
           sim == compare_stacktraces(st1.stacktrace, st2.stacktrace)[3]
           result == [comparison_id |-> comparison_count + 1,
                      file1 |-> st1.filename,
                      file2 |-> st2.filename,
                      similarity |-> Round2(sim)]
       IN  /\ st1.filename # st2.filename
           /\ comparison_count' = comparison_count + 1
           /\ all_results' = Append(all_results, result)
           /\ above_threshold_count' =
                 IF ~RatGE(Float(threshold), sim)
                 THEN above_threshold_count + 1
                 ELSE above_threshold_count
    /\ i' = NextI
    /\ j' = NextJ
    /\ UNCHANGED <<pc, chainVars, simVars, all_stacktraces, threshold, seqVars>>

\* an inner iteration on two stacktraces of different files
PairRecord ==
    /\ pc = "pairwise"
    /\ j < Len(all_stacktraces)
    /\ LET st1 == all_stacktraces[i + 1]
           st2 == all_stacktraces[j + 1]
           sim == compare_stacktraces(st1.stacktrace, st2.stacktrace)[3]
           result == [comparison_id |-> comparison_count + 1,
                      file1 |-> st1.filename,
                      file2 |-> st2.filename,
                      similarity |-> Round2(sim)]
       IN  /\ st1.filename # st2.filename
           /\ comparison_count' = comparison_count + 1
           /\ all_results' = Append(all_results, result)
           /\ above_threshold_count' =
                 IF RatGE(sim, Float(threshold))
                 THEN above_threshold_count + 1
                 ELSE above_threshold_count
    /\ i' = NextI
    /\ j' = NextJ
    /\ UNCHANGED <<pc, chainVars, simVars, all_stacktraces, threshold, seqVars>>

\* an inner iteration on two stacktraces of the same file
PairSkip ==
    /\ pc = "pairwise"
    /\ j < Len(all_stacktraces)
    /\ all_stacktraces[i + 1].filename = all_stacktraces[j + 1].filename
    /\ i' = NextI
    /\ j' = NextJ
    /\ UNCHANGED <<pc, chainVars, simVars, all_stacktraces, threshold, seqVars,
                   all_results, comparison_count, above_threshold_count>>

\* the loops are over: all_results is saved and the counts are printed
PairSave ==
    /\ pc = "pairwise"
    /\ j >= Len(all_stacktraces)
    /\ pc' = "done"
    /\ UNCHANGED <<chainVars, simVars, all_stacktraces, threshold, seqVars, pairVars>>

PairNext == PairRecord \/ PairSkip \/ PairSave

SpecPair == PairInit /\ [][PairNext]_vars

(***************************************************************************)
(* Properties.                                                             *)
(***************************************************************************)
\* the similarity of two raw texts
SimOf(x, y) == compare_stacktraces(x, y)[3]

\* the stacktrace the for loop of sequential_compare takes next
Candidate == all_stacktraces[k + 1]
AtCandidate == pc = "seq" /\ k < Len(all_stacktraces)
LineCount(text) == Len(splitlines(text))

IsPrefix(s, t) == Len(s) <= Len(t) /\ SubSeq(t, 1, Len(s)) = s

RECURSIVE IsSubseq(_, _)
IsSubseq(s, t) ==
    IF s = <<>> THEN TRUE
    ELSE IF t = <<>> THEN FALSE
    ELSE IF Head(s) = Head(t) THEN IsSubseq(Tail(s), Tail(t))
    ELSE IsSubseq(s, Tail(t))

\* C1: at every point of sequential_compare, any two members of the corpus,
\* the first admitted before the second, have a similarity strictly below
\* the threshold.
C1_CorpusPairsBelowThreshold ==
    \A x, y \in 1..Len(corpus) :
        x < y => RatLT(SimOf(corpus[x], corpus[y]), Float(threshold))

C1_Witness ==
    /\ pc = "done"
    /\ Len(corpus) >= 2
    /\ similar_count >= 1
    /\ \E x, y \in 1..Len(corpus) : x < y /\ SimOf(corpus[x], corpus[y]) # Float(0)

\* C2: an iteration on a candidate of at least 8 lines appends it to the
\* corpus and adds 1 to distinct_count, leaving similar_count, exactly when
\* the corpus is empty or every similarity to a member is strictly below the
\* threshold; otherwise it adds 1 to similar_count and leaves the corpus and
\* distinct_count.
C2_AdmitIffBelow ==
    [][(AtCandidate /\ LineCount(Candidate.stacktrace) >= 8) =>
         IF \/ corpus = <<>>
            \/ \A m \in 1..Len(corpus) :
                  RatLT(SimOf(Candidate.stacktrace, corpus[m]), Float(threshold))
         THEN /\ corpus' = Append(corpus, Candidate.stacktrace)
              /\ distinct_count' = distinct_count + 1
              /\ similar_count' = similar_count
         ELSE /\ similar_count' = similar_count + 1
              /\ corpus' = corpus
              /\ distinct_count' = distinct_count]_vars

C2_Witness ==
    /\ k = 3
    /\ distinct_count = 2
    /\ similar_count = 1
    /\ threshold = 80

\* C3: the corpus only grows at its end (the corpus before a step is a
\* prefix of the corpus after it), and its members are in the order in which
\* they arrived: the corpus is a subsequence of the texts taken so far.
C3_AppendOnly ==
    /\ [][IsPrefix(corpus, corpus')]_vars
    /\ [](IsSubseq(corpus, [x \in 1..k |-> all_stacktraces[x].stacktrace]))

C3_Witness ==
    /\ Len(corpus) = 2
    /\ corpus[1] # corpus[2]
    /\ k = 3
    /\ all_stacktraces[2].stacktrace \notin {corpus[1], corpus[2]}

\* C4: an iteration on an item of fewer than 8 lines changes neither the
\* corpus nor distinct_count nor similar_count.
C4_ShortItemSkipped ==
    [][(AtCandidate /\ LineCount(Candidate.stacktrace) < 8) =>
         UNCHANGED <<corpus, distinct_count, similar_count>>]_vars

C4_Witness ==
    /\ k >= 2
    /\ corpus # <<>>
    /\ LineCount(all_stacktraces[k].stacktrace) = 7
    /\ distinct_count + similar_count = k - 1

\* segment prefixes repeated count times, concatenated in chain order
RECURSIVE Expand(_)
Expand(chain) ==
    IF chain = <<>> THEN <<>>
    ELSE [x \in 1..chain[1][2] |-> chain[1][1]] \o Expand(Tail(chain))

RECURSIVE SumCounts(_)
SumCounts(chain) == IF chain = <<>> THEN 0 ELSE chain[1][2] + SumCounts(Tail(chain))

\* the prefixes of the frames of a text, top to bottom
FramePrefixes(text) ==
    LET frames == extract_frames(text)
    IN  [x \in 1..Len(frames) |-> extract_prefix(frames[x])]

\* C5: the chain of a text, expanded and reversed, is the list of the
\* prefixes of the frames of the text in source order; the counts sum to the
\* number of frames and the chain is empty exactly when there is no frame.
C5_Reconstruction ==
    pc = "done" =>
        /\ Reverse(Expand(nodes)) = FramePrefixes(stacktrace)
        /\ SumCounts(nodes) = Len(extract_frames(stacktrace))
        /\ (nodes = <<>>) <=> (extract_frames(stacktrace) = <<>>)

C5_Witness ==
    /\ pc = "done"
    /\ Len(nodes) = 2
    /\ nodes[1][2] = 2
    /\ Len(splitlines(stacktrace)) > Len(extract_frames(stacktrace))

\* C6: in the chain of a text every count is at least 1 and no two adjacent
\* segments have the same prefix.
C6_MaximalRuns ==
    pc = "done" =>
        /\ \A x \in 1..Len(nodes) : nodes[x][2] >= 1
        /\ \A x \in 1..(Len(nodes) - 1) : nodes[x][1] # nodes[x + 1][1]

C6_Witness ==
    /\ pc = "done"
    /\ Len(nodes) = 2
    /\ nodes[2][2] = 2
    /\ Len(splitlines(stacktrace)) = Len(extract_frames(stacktrace))

\* C7: the similarity of two chains does not depend on their order.
C7_Symmetric ==
    pc = "done" => similarity = compute_similarity(nodes_b, nodes_a)

C7_Witness ==
    /\ pc = "done"
    /\ Len(nodes_a) < Len(nodes_b)
    /\ nodes_a # <<>>
    /\ similarity \notin {Float(0), Float(100)}

\* C8: the similarity of a non-empty chain to itself is exactly 100: the
\* LCS of its prefix list with itself has its length.
C8_Identity ==
    (pc = "done" /\ nodes_a = nodes_b /\ nodes_a # <<>>) =>
        /\ similarity = Float(100)
        /\ lcs_length(PrefixesOf(nodes_a), PrefixesOf(nodes_a)) = Len(nodes_a)

C8_Witness ==
    /\ pc = "done"
    /\ nodes_a = nodes_b
    /\ Len(nodes_a) = 3
    /\ nodes_a[1][1] = nodes_a[3][1]
    /\ nodes_a[1][1] # nodes_a[2][1]

\* C9: a similarity is a number from 0 to 100 (the LCS length is between 0
\* and the greater length), no division by zero is raised, and the
\* similarity is 0 when either chain is empty.
C9_Bounded ==
    pc = "done" =>
        /\ similarity # ZeroDivisionError
        /\ similarity.den > 0
        /\ RatGE(similarity, Float(0))
        /\ RatGE(Float(100), similarity)
        /\ lcs_length(PrefixesOf(nodes_a), PrefixesOf(nodes_b)) \in
              0..Max(Len(nodes_a), Len(nodes_b))
        /\ (nodes_a = <<>> \/ nodes_b = <<>>) => similarity = Float(0)

C9_Witness ==
    /\ pc = "done"
    /\ nodes_a = <<>>
    /\ nodes_b = <<>>
    /\ similarity = Float(0)

\* the index pairs (a, b), 0 <= a < b < n, in lexicographic order
PairLess(p, q) == p[1] < q[1] \/ (p[1] = q[1] /\ p[2] < q[2])
PairSeq(n) ==
    LET S == {p \in (0..(n - 1)) \X (0..(n - 1)) : p[1] < p[2]}
        Rank(p) == Cardinality({q \in S : PairLess(q, p)}) + 1
    IN  [r \in 1..Cardinality(S) |-> CHOOSE p \in S : Rank(p) = r]

\* the pairs of different files that come before the pair (i, j)
RecordedPairs ==
    LET Wanted(p) ==
            /\ PairLess(p, <<i, j>>)
            /\ all_stacktraces[p[1] + 1].filename # all_stacktraces[p[2] + 1].filename
    IN  SelectSeq(PairSeq(Len(all_stacktraces)), Wanted)

\* C10: all_results holds one result for each index pair of different files
\* taken so far and none for a pair of one file, whatever the similarity, in
\* lexicographic order of the pairs with comparison_id 1, 2, ...; and
\* comparison_count is the number of results.
C10_OneResultPerPair ==
    /\ Len(all_results) = Len(RecordedPairs)
    /\ comparison_count = Len(all_results)
    /\ \A x \in 1..Len(all_results) :
          LET st1 == all_stacktraces[RecordedPairs[x][1] + 1]
              st2 == all_stacktraces[RecordedPairs[x][2] + 1]
          IN  /\ all_results[x].comparison_id = x
              /\ all_results[x].file1 = st1.filename
              /\ all_results[x].file2 = st2.filename
              /\ all_results[x].similarity = Round2(SimOf(st1.stacktrace, st2.stacktrace))

C10_Witness ==
    /\ pc = "done"
    /\ Len(all_stacktraces) = 3
    /\ Len(all_results) = 2
    /\ all_results[1].similarity = Float(0)
    /\ all_results[2].similarity # Float(0)
    /\ threshold = 80
    /\ above_threshold_count = 0

\* the similarity, as computed, of the x-th recorded pair
RecordedSim(x) ==
    SimOf(all_stacktraces[RecordedPairs[x][1] + 1].stacktrace,
          all_stacktraces[RecordedPairs[x][2] + 1].stacktrace)

\* C11 as stated: above_threshold_count never exceeds comparison_count and,
\* at the end of the scan, is the number of recorded comparisons whose
\* similarity is strictly greater than the threshold.
C11_CountsStrictlyAbove ==
    /\ above_threshold_count <= comparison_count
    /\ pc = "done" =>
          above_threshold_count =
             Cardinality({x \in 1..Len(all_results) :
                             ~RatGE(Float(threshold), all_results[x].similarity)})

\* C11 as amended: above_threshold_count never exceeds comparison_count and,
\* at the end of the scan, is the number of compared pairs whose similarity
\* is greater than or equal to the threshold.
C11_CountsAtLeastThreshold ==
    /\ above_threshold_count <= comparison_count
    /\ pc = "done" =>
          above_threshold_count =
             Cardinality({x \in 1..Len(RecordedPairs) :
                             RatGE(RecordedSim(x), Float(threshold))})

C11_Witness ==
    /\ pc = "done"
    /\ comparison_count = 2
    /\ above_threshold_count = 1
    /\ \E x \in 1..Len(RecordedPairs) :
          RecordedSim(x) = Float(threshold) /\ threshold = 50

\* C12: with a threshold outside [0, 100] the sequential run is rejected
\* before it compares anything: no stacktrace is ever added to the corpus
\* or counted as distinct or similar.
C12_BadThresholdRejected ==
    (threshold < 0 \/ threshold > 100) =>
        /\ corpus = <<>>
        /\ distinct_count = 0
        /\ similar_count = 0

\* the elements of s[1..n] at the indices in I, in order
RECURSIVE Pick(_, _, _)
Pick(s, I, n) ==
    IF n = 0 THEN <<>>
    ELSE IF n \in I THEN Append(Pick(s, I, n - 1), s[n])
    ELSE Pick(s, I, n - 1)

\* all (not necessarily contiguous) subsequences of s
Subsequences(s) == {Pick(s, I, Len(s)) : I \in SUBSET (1..Len(s))}

\* the length of a longest sequence that is a subsequence of both
LCSReference(s, t) ==
    LET common == Subsequences(s) \cap Subsequences(t)
    IN  CHOOSE n \in 0..Len(s) :
            /\ \E c \in common : Len(c) = n
            /\ \A c \in common : Len(c) <= n

\* C13: lcs_length of the two prefix lists is the greatest length of a
\* common subsequence, the empty lists included; the similarity returned
\* for two non-empty chains is that length over the greater length.
C13_LcsIsLongestCommonSubsequence ==
    pc = "done" =>
        LET seq_a == PrefixesOf(nodes_a)
            seq_b == PrefixesOf(nodes_b)
            ref == LCSReference(seq_a, seq_b)
        IN  /\ lcs_length(seq_a, seq_b) = ref
            /\ (seq_a # <<>> /\ seq_b # <<>>) =>
                  similarity = Rat(ref * 100, Max(Len(seq_a), Len(seq_b)))

C13_Witness ==
    /\ pc = "done"
    /\ Len(nodes_a) = 3
    /\ Len(nodes_b) = 3
    /\ nodes_a[1][1] = nodes_b[1][1]
    /\ nodes_a[2][1] # nodes_b[2][1]
    /\ nodes_a[3][1] = nodes_b[3][1]
    /\ nodes_a[1][1] # nodes_a[3][1]
    /\ LCSReference(PrefixesOf(nodes_a), PrefixesOf(nodes_b)) = 2

\* the ordered prefix list of the chain of a text
PrefixList(text) == PrefixesOf(build_node_chain(text))

====
